---- MODULE Spec2Model ----
(***************************************************************************)
(* Model of mike/versions.py: the VersionInfo entry and the Versions       *)
(* registry (component -> version string -> VersionInfo).                   *)
(*                                                                         *)
(* Python values are represented as follows.                               *)
(*   - a str is a TLA+ string; None is the string None;                    *)
(*   - str(LooseVersion(s)) returns s, so a version is its string;         *)
(*   - a dict is a total function to records with a `present` flag         *)
(*     (`k in d` is d[k].present); an absent slot holds the blank value;   *)
(*   - a list / tuple is a sequence; find's None is the empty sequence;    *)
(*   - a call returns a record with the field err: "ok" or the name of    *)
(*     the exception raised, msg its message kind and names the            *)
(*     identifiers the message names.                                      *)
(***************************************************************************)
EXTENDS Integers, Sequences, FiniteSets, TLC

\* ---------------------------------------------------------------- bounds
MaxAliases == 1
MaxIdentifiers == 2
MaxEntries == 2
MaxDocEntries == 2

\* ---------------------------------------------------------------- inputs
None == "None"
Components == {"1.0", "web"}
Names == {"1.0", "2.0", "latest"}
InvalidNames == {".."}
HasSeparator == {}
Idents == Names \cup InvalidNames
AliasNames == {"1.0", "latest"} \cup InvalidNames
Titles == {None, "T"}

RECURSIVE SeqsUpTo(_, _)
SeqsUpTo(S, n) ==
    IF n = 0 THEN {<<>>}
    ELSE LET shorter == SeqsUpTo(S, n - 1)
         IN shorter \cup {Append(s, x) : s \in {t \in shorter : Len(t) = n - 1}, x \in S}

AliasLists == SeqsUpTo(AliasNames, MaxAliases)
IdentifierLists == SeqsUpTo(Idents, MaxIdentifiers)

Range(s) == {s[i] : i \in 1..Len(s)}

\* the JSON objects of one entry: the keys version, title and aliases
DocEntries == [version : {"1.0", "latest"}, title : {"T"}, aliases : AliasLists]

\* the documents given to from_json: a JSON object with one component name
\* as key and an array of entries as value
Docs ==
    {[kind |-> "dict", items |-> <<[component |-> c, versions |-> es]>>] :
        c \in Components, es \in SeqsUpTo(DocEntries, MaxDocEntries)}

\* ---------------------------------------------------------------- values
NoInfo == [present |-> FALSE, title |-> None, aliases |-> {}]
NoBucket == [present |-> FALSE, v |-> [n \in Idents |-> NoInfo]]
EmptyBucket == [present |-> TRUE, v |-> [n \in Idents |-> NoInfo]]
EmptyData == [c \in Components |-> NoBucket]

Ok == [err |-> "ok", msg |-> "", names |-> {}]
Raise(e, m, n) == [err |-> e, msg |-> m, names |-> n]

\* a non-empty str is truthy
Truthy(s) == s # ""

\* ------------------------------------------------------------ VersionInfo
\* VersionInfo._check_version: TRUE when the ValueError is raised
CheckVersionRaises(version) ==
    \/ version = ""
    \/ version \in {".", ".."}
    \/ version \in HasSeparator

RECURSIVE FirstInvalid(_)
\* the first element of the list that _check_version rejects, as <<x>>, or <<>>
FirstInvalid(aliases) ==
    IF aliases = <<>> THEN <<>>
    ELSE IF CheckVersionRaises(Head(aliases)) THEN <<Head(aliases)>>
    ELSE FirstInvalid(Tail(aliases))

\* VersionInfo.__init__(version, title, aliases)
VersionInfoInit(version, title, aliases) ==
    IF CheckVersionRaises(version)
    THEN [res |-> Raise("ValueError", "invalid_version", {version}), info |-> NoInfo]
    ELSE IF FirstInvalid(aliases) # <<>>
    THEN [res |-> Raise("ValueError", "invalid_alias", Range(FirstInvalid(aliases))),
          info |-> NoInfo]
    ELSE IF version \in Range(aliases)
    THEN [res |-> Raise("ValueError", "duplicated", {}), info |-> NoInfo]
    ELSE [res |-> Ok,
          info |-> [present |-> TRUE,
                    title |-> IF title = None THEN version ELSE title,
                    aliases |-> Range(aliases)]]

\* VersionInfo.update with `self.aliases ^= aliases` in place of `|=`
VersionInfoUpdateSymmetricDifference(info, version, title, aliases) ==
    IF FirstInvalid(aliases) # <<>>
    THEN [res |-> Raise("ValueError", "invalid_alias", Range(FirstInvalid(aliases))),
          info |-> info, added |-> {}]
    ELSE LET titled == IF title # None THEN [info EXCEPT !.title = title] ELSE info
         IN IF version \in Range(aliases)
            THEN [res |-> Raise("ValueError", "duplicated", {}),
                  info |-> titled, added |-> {}]
            ELSE [res |-> Ok,
                  info |-> [titled EXCEPT !.aliases =
                              (info.aliases \ Range(aliases))
                              \cup (Range(aliases) \ info.aliases)],
                  added |-> Range(aliases) \ info.aliases]

\* VersionInfo.update without its `duplicated version and alias` check
VersionInfoUpdateNoDuplicateCheck(info, version, title, aliases) ==
    IF FirstInvalid(aliases) # <<>>
    THEN [res |-> Raise("ValueError", "invalid_alias", Range(FirstInvalid(aliases))),
          info |-> info, added |-> {}]
    ELSE LET titled == IF title # None THEN [info EXCEPT !.title = title] ELSE info
         IN [res |-> Ok,
             info |-> [titled EXCEPT !.aliases = info.aliases \cup Range(aliases)],
             added |-> Range(aliases) \ info.aliases]

\* VersionInfo.update with `return aliases` in place of `return added`
VersionInfoUpdateReturnsGiven(info, version, title, aliases) ==
    IF FirstInvalid(aliases) # <<>>
    THEN [res |-> Raise("ValueError", "invalid_alias", Range(FirstInvalid(aliases))),
          info |-> info, added |-> {}]
    ELSE LET titled == IF title # None THEN [info EXCEPT !.title = title] ELSE info
         IN IF version \in Range(aliases)
            THEN [res |-> Raise("ValueError", "duplicated", {}),
                  info |-> titled, added |-> {}]
            ELSE [res |-> Ok,
                  info |-> [titled EXCEPT !.aliases = info.aliases \cup Range(aliases)],
                  added |-> Range(aliases)]

\* VersionInfo.update(title, aliases) on the entry `info` of version `version`;
\* info is the entry after the call, also when the call raises
VersionInfoUpdate(info, version, title, aliases) ==
    IF FirstInvalid(aliases) # <<>>
    THEN [res |-> Raise("ValueError", "invalid_alias", Range(FirstInvalid(aliases))),
          info |-> info, added |-> {}]
    ELSE LET titled == IF title # None THEN [info EXCEPT !.title = title] ELSE info
         IN IF version \in Range(aliases)
            THEN [res |-> Raise("ValueError", "duplicated", {}),
                  info |-> titled, added |-> {}]
            ELSE [res |-> Ok,
                  info |-> [titled EXCEPT !.aliases = info.aliases \cup Range(aliases)],
                  added |-> Range(aliases) \ info.aliases]

\* --------------------------------------------------------------- Versions
\* Versions.find(identifier, strict): the keys of self._data are the
\* component names and its values are the per-component dicts, which have
\* no attribute `aliases`
Find(d, identifier, strict) ==
    IF identifier \in Components /\ d[identifier].present
    THEN [res |-> Ok, key |-> <<identifier>>]
    ELSE IF \E c \in Components : d[c].present
    THEN [res |-> Raise("AttributeError", "dict_has_no_aliases", {}), key |-> <<>>]
    ELSE IF strict
    THEN [res |-> Raise("KeyError", "not_found", {identifier}), key |-> <<>>]
    ELSE [res |-> Ok, key |-> <<>>]

\* a find(component, x) that searches the entries of every component for x
FindPositionalEveryComponent(d, component, x) ==
    IF \E c \in Components : d[c].present /\ d[c].v[x].present
    THEN [res |-> Ok, key |-> <<x>>]
    ELSE Find(d, component, Truthy(x))

\* the call self.find(component, x): component is bound to the parameter
\* identifier and x to the parameter strict
FindPositional(d, component, x) == Find(d, component, Truthy(x))

\* the call self.find(component, identifier, strict=True): strict receives
\* both the second positional argument and the keyword
FindStrictKeyword(d, component, identifier) ==
    [res |-> Raise("TypeError", "multiple_values_for_strict", {}), key |-> <<>>]

RECURSIVE EnsureAliasLoop(_, _, _, _, _, _)
\* the loop `for alias in aliases` of _ensure_unique_aliases
EnsureAliasLoop(d, component, version, aliases, update_aliases, removed) ==
    IF aliases = <<>> THEN [res |-> Ok, removed |-> removed]
    ELSE LET alias == Head(aliases)
             f == FindPositional(d, component, alias)
         IN IF f.res.err # "ok" THEN [res |-> f.res, removed |-> removed]
            ELSE IF f.key # <<>> /\ f.key[1] # version
            THEN IF Len(f.key) = 1
                 THEN [res |-> Raise("ValueError", "alias_is_version", {alias}),
                       removed |-> removed]
                 ELSE IF ~update_aliases
                 THEN [res |-> Raise("ValueError", "alias_exists", {alias}),
                       removed |-> removed]
                 ELSE EnsureAliasLoop(d, component, version, Tail(aliases),
                                      update_aliases, Append(removed, f.key))
            ELSE EnsureAliasLoop(d, component, version, Tail(aliases),
                                 update_aliases, removed)

\* _ensure_unique_aliases without its check of the requested aliases
EnsureUniqueAliasesNoAliasCheck(d, component, version, aliases, update_aliases) ==
    LET f == FindPositional(d, component, version)
    IN IF f.res.err # "ok" THEN [res |-> f.res, removed |-> <<>>]
       ELSE IF f.key # <<>> /\ Len(f.key) = 2 /\ ~update_aliases
       THEN [res |-> Raise("ValueError", "version_exists", {version}),
             removed |-> <<>>]
       ELSE [res |-> Ok, removed |-> <<>>]

\* Versions._ensure_unique_aliases(component, version, aliases, update_aliases)
EnsureUniqueAliases(d, component, version, aliases, update_aliases) ==
    LET f == FindPositional(d, component, version)
    IN IF f.res.err # "ok" THEN [res |-> f.res, removed |-> <<>>]
       ELSE IF f.key # <<>> /\ Len(f.key) = 2
       THEN IF ~update_aliases
            THEN [res |-> Raise("ValueError", "version_exists", {version}),
                  removed |-> <<>>]
            ELSE EnsureAliasLoop(d, component, version, aliases, update_aliases,
                                 <<f.key>>)
       ELSE EnsureAliasLoop(d, component, version, aliases, update_aliases, <<>>)

RECURSIVE RemoveAliases(_, _, _)
\* the loop `for i in removed_aliases:
\*     self._data[component][i[0]].aliases.remove(i[1])`
\* the dict lookup raises KeyError(i[0]) when i[0] is no entry of the
\* component, set.remove raises KeyError(i[1]) when i[1] is not in the set
RemoveAliases(d, component, removed) ==
    IF removed = <<>> THEN [res |-> Ok, data |-> d]
    ELSE LET i == Head(removed)
         IN IF ~d[component].v[i[1]].present
            THEN [res |-> Raise("KeyError", "remove_missing", {i[1]}), data |-> d]
            ELSE IF i[2] \notin d[component].v[i[1]].aliases
            THEN [res |-> Raise("KeyError", "remove_missing", {i[2]}), data |-> d]
            ELSE RemoveAliases(
                   [d EXCEPT ![component].v[i[1]].aliases = @ \ {i[2]}],
                   component, Tail(removed))

\* Versions.add(component, version, title, aliases, update_aliases)
AddResult(d, component, version, title, aliases, update_aliases) ==
    LET d1 == IF ~d[component].present
              THEN [d EXCEPT ![component] = EmptyBucket] ELSE d
        eu == EnsureUniqueAliases(d1, component, version, aliases, update_aliases)
    IN IF eu.res.err # "ok" THEN [res |-> eu.res, data |-> d1]
       ELSE IF d1[component].v[version].present
       THEN LET u == VersionInfoUpdate(d1[component].v[version], version,
                                       title, aliases)
                d2 == [d1 EXCEPT ![component].v[version] = u.info]
            IN IF u.res.err # "ok" THEN [res |-> u.res, data |-> d2]
               ELSE RemoveAliases(d2, component, eu.removed)
       ELSE LET n == VersionInfoInit(version, title, aliases)
                d2 == [d1 EXCEPT ![component].v[version] = n.info]
            IN IF n.res.err # "ok" THEN [res |-> n.res, data |-> d1]
               ELSE RemoveAliases(d2, component, eu.removed)

\* Versions.update(component, identifier, title, aliases, update_aliases)
UpdateResult(d, component, identifier, title, aliases, update_aliases) ==
    LET f == FindStrictKeyword(d, component, identifier)
    IN IF f.res.err # "ok" THEN [res |-> f.res, data |-> d]
       ELSE IF f.key = <<>>
       THEN [res |-> Raise("ValueError", "not_found", {identifier}), data |-> d]
       ELSE LET eu == EnsureUniqueAliases(d, component, f.key[1], aliases,
                                          update_aliases)
            IN IF eu.res.err # "ok" THEN [res |-> eu.res, data |-> d]
               ELSE LET r == RemoveAliases(d, component, eu.removed)
                    IN IF r.res.err # "ok" THEN r
                       ELSE LET u == VersionInfoUpdate(
                                       r.data[component].v[f.key[1]],
                                       f.key[1], title, aliases)
                            IN [res |-> u.res,
                                data |-> [r.data EXCEPT
                                            ![component].v[f.key[1]] = u.info]]

\* the call self._remove_by_key(component, key): _remove_by_key(self, key)
\* takes one argument
RemoveByKeyCall(d, component, key) ==
    [res |-> Raise("TypeError", "takes_2_positional_arguments", {}), data |-> d]

\* Versions.remove(component, identifier)
RemoveResult(d, component, identifier) ==
    LET f == FindStrictKeyword(d, component, identifier)
    IN IF f.res.err # "ok" THEN [res |-> f.res, data |-> d]
       ELSE IF f.key = <<>>
       THEN [res |-> Raise("ValueError", "not_found", {identifier}), data |-> d]
       ELSE RemoveByKeyCall(d, component, f.key)

RECURSIVE FindAll(_, _, _)
\* keys = [self.find(component, i, strict=True) for i in identifiers]
FindAll(d, component, identifiers) ==
    IF identifiers = <<>> THEN [res |-> Ok, keys |-> <<>>]
    ELSE LET f == FindStrictKeyword(d, component, Head(identifiers))
         IN IF f.res.err # "ok" THEN [res |-> f.res, keys |-> <<>>]
            ELSE LET rest == FindAll(d, component, Tail(identifiers))
                 IN [res |-> rest.res, keys |-> <<f.key>> \o rest.keys]

RECURSIVE RemoveAllKeys(_, _, _)
\* [self._remove_by_key(component, k) for k in keys]
RemoveAllKeys(d, component, keys) ==
    IF keys = <<>> THEN [res |-> Ok, data |-> d]
    ELSE LET r == RemoveByKeyCall(d, component, Head(keys))
         IN IF r.res.err # "ok" THEN r
            ELSE RemoveAllKeys(r.data, component, Tail(keys))

RECURSIVE RemoveEachInTurn(_, _, _)
\* every identifier of the list is resolved against the entries of the
\* component and removed before the next one is looked up
RemoveEachInTurn(d, component, identifiers) ==
    IF identifiers = <<>> THEN [res |-> Ok, data |-> d]
    ELSE LET x == Head(identifiers)
             owners == {o \in Idents : d[component].v[o].present
                                        /\ x \in d[component].v[o].aliases}
         IN IF d[component].v[x].present
            THEN RemoveEachInTurn([d EXCEPT ![component].v[x] = NoInfo],
                                  component, Tail(identifiers))
            ELSE IF owners # {}
            THEN RemoveEachInTurn(
                   [d EXCEPT ![component].v =
                      [o \in Idents |->
                         [d[component].v[o] EXCEPT !.aliases = @ \ {x}]]],
                   component, Tail(identifiers))
            ELSE [res |-> Raise("KeyError", "not_found", {x}), data |-> d]

\* difference_update that looks up and removes one identifier after the other
DifferenceUpdateResultInTurn(d, component, identifiers) ==
    RemoveEachInTurn(d, component, identifiers)

\* Versions.difference_update(component, identifiers)
DifferenceUpdateResult(d, component, identifiers) ==
    LET fa == FindAll(d, component, identifiers)
    IN IF fa.res.err # "ok" THEN [res |-> fa.res, data |-> d]
       ELSE IF \E k \in 1..Len(fa.keys) : fa.keys[k] = <<>>
       THEN [res |-> Raise("ValueError", "not_found",
                           {identifiers[k] : k \in {j \in 1..Len(fa.keys) :
                                                      fa.keys[j] = <<>>}}),
             data |-> d]
       ELSE RemoveAllKeys(d, component, fa.keys)

\* the body of Versions._remove_by_key(key): self._data is keyed by component
\* name, so a 1-tuple deletes the component key[0] and a 2-tuple reads the
\* attribute `aliases` of a per-component dict
RemoveByKey(d, key) ==
    IF ~(key[1] \in Components /\ d[key[1]].present)
    THEN [res |-> Raise("KeyError", "not_found", {key[1]}), data |-> d,
          ret |-> <<>>]
    ELSE IF Len(key) = 1
    THEN [res |-> Ok, data |-> [d EXCEPT ![key[1]] = NoBucket],
          ret |-> <<"dict", key[1]>>]
    ELSE [res |-> Raise("AttributeError", "dict_has_no_aliases", {}),
          data |-> d, ret |-> <<>>]

\* Versions.__iter__: sorted() calls key(info) on every value of self._data;
\* the values are the per-component dicts, which have no attribute `version`.
\* ret is the sequence of the entries yielded
IterResult(d) ==
    IF \E c \in Components : d[c].present
    THEN [res |-> Raise("AttributeError", "dict_has_no_version", {}), ret |-> <<>>]
    ELSE [res |-> Ok, ret |-> <<>>]

\* Versions.to_json / dumps: the list of i.to_json() for i in iter(self)
ToJsonResult(d) ==
    LET it == IterResult(d)
    IN IF it.res.err # "ok" THEN [res |-> it.res, doc |-> [kind |-> "list", items |-> <<>>]]
       ELSE [res |-> Ok,
             doc |-> [kind |-> "list",
                      items |-> [i \in 1..Len(it.ret) |->
                                   [version |-> it.ret[i].version,
                                    title |-> it.ret[i].title,
                                    aliases |-> it.ret[i].aliases]]]]

\* the orders in which a `for` loop can meet the elements of a set of str:
\* the order follows the hashes of the strings, which differ from one process
\* to the next
IterationOrders(S) ==
    {s \in [1..Cardinality(S) -> S] : Range(s) = S}

RECURSIVE FromJsonVersions(_, _, _)
\* the loop `for version_data in versions` of from_json: the set of the
\* outcomes it can have. _ensure_unique_aliases receives version.aliases,
\* the set built by VersionInfo.__init__, and meets its elements in any order
FromJsonVersions(d, component, versions) ==
    IF versions = <<>> THEN {[res |-> Ok, data |-> d]}
    ELSE LET vd == Head(versions)
             n == VersionInfoInit(vd.version, vd.title, vd.aliases)
         IN IF n.res.err # "ok" THEN {[res |-> n.res, data |-> d]}
            ELSE UNION {
                   LET eu == EnsureUniqueAliases(d, component, vd.version,
                                                 order, FALSE)
                   IN IF eu.res.err # "ok" THEN {[res |-> eu.res, data |-> d]}
                      ELSE FromJsonVersions(
                             [d EXCEPT ![component].v[vd.version] = n.info],
                             component, Tail(versions)) :
                   order \in IterationOrders(n.info.aliases)}

RECURSIVE FromJsonItems(_, _)
\* the loop `for component, versions in data.items()` of from_json: the set
\* of the outcomes it can have
FromJsonItems(d, items) ==
    IF items = <<>> THEN {[res |-> Ok, data |-> d]}
    ELSE LET it == Head(items)
             d1 == IF ~d[it.component].present
                   THEN [d EXCEPT ![it.component] = EmptyBucket] ELSE d
         IN UNION {IF r.res.err # "ok" THEN {r}
                   ELSE FromJsonItems(r.data, Tail(items)) :
                   r \in FromJsonVersions(d1, it.component, it.versions)}

\* Versions.from_json(data) / loads: the set of the outcomes the call can
\* have; data.items() needs a JSON object, and the registry is returned only
\* when no exception is raised
FromJsonResult(doc) ==
    IF doc.kind # "dict"
    THEN {[res |-> Raise("AttributeError", "list_has_no_items", {}),
           data |-> EmptyData]}
    ELSE {IF r.res.err # "ok" THEN [res |-> r.res, data |-> EmptyData] ELSE r :
          r \in FromJsonItems(EmptyData, doc.items)}

\* Versions.loads(registry.dumps()): the set of the outcomes it can have
RoundTripResult(d) ==
    LET j == ToJsonResult(d)
    IN IF j.res.err # "ok" THEN {[res |-> j.res, data |-> EmptyData]}
       ELSE FromJsonResult(j.doc)

\* ------------------------------------------------------------------ state
\* data is the registry (Versions._data), last the call made last and its
\* outcome, entry a VersionInfo object that the caller holds outside of any
\* registry
VARIABLES data, last, entry
vars == <<data, last, entry>>

\* the caller holds no VersionInfo object
NoEntry == [version |-> None, info |-> NoInfo]

\* the number of entries of the registry
NumEntries(d) ==
    Cardinality({x \in Components \X Idents : d[x[1]].v[x[2]].present})

Call(op, component, version, title, aliases, update_aliases, identifiers, r, pre) ==
    [op |-> op, component |-> component, version |-> version, title |-> title,
     aliases |-> aliases, update_aliases |-> update_aliases,
     identifiers |-> identifiers, err |-> r.res.err, msg |-> r.res.msg,
     names |-> r.res.names, pre |-> pre, ret |-> <<>>, strict |-> FALSE,
     doc |-> [kind |-> "none", items |-> <<>>], added |-> {}, old |-> NoEntry]

\* no call is in progress: the caller has taken the result of the last one
Idle == Call("idle", None, None, None, <<>>, FALSE, <<>>, [res |-> Ok], EmptyData)

Init ==
    /\ data = EmptyData
    /\ last = Idle
    /\ entry = NoEntry

Add ==
    \E component \in Components, version \in Names, title \in Titles,
       aliases \in AliasLists, update_aliases \in BOOLEAN :
        /\ last.op = "idle"
        /\ NumEntries(data) < MaxEntries \/ data[component].v[version].present
        /\ LET r == AddResult(data, component, version, title, aliases,
                              update_aliases)
           IN /\ data' = r.data
              /\ UNCHANGED entry
              /\ last' = Call("add", component, version, title, aliases,
                              update_aliases, <<>>, r, data)

Update ==
    \E component \in Components, identifier \in Names, title \in Titles,
       aliases \in AliasLists, update_aliases \in BOOLEAN :
        LET r == UpdateResult(data, component, identifier, title, aliases,
                              update_aliases)
        IN /\ last.op = "idle"
           /\ data' = r.data
           /\ UNCHANGED entry
           /\ last' = Call("update", component, identifier, title, aliases,
                           update_aliases, <<>>, r, data)

Remove ==
    \E component \in Components, identifier \in Idents :
        LET r == RemoveResult(data, component, identifier)
        IN /\ last.op = "idle"
           /\ data' = r.data
           /\ UNCHANGED entry
           /\ last' = Call("remove", component, identifier, None, <<>>, FALSE,
                           <<>>, r, data)

DifferenceUpdate ==
    \E component \in Components, identifiers \in IdentifierLists :
        LET r == DifferenceUpdateResult(data, component, identifiers)
        IN /\ last.op = "idle"
           /\ data' = r.data
           /\ UNCHANGED entry
           /\ last' = Call("difference_update", component, None, None, <<>>,
                           FALSE, identifiers, r, data)

\* a caller's self.find(component, identifier), or with strict=True as
\* update, remove and difference_update call it
FindCall ==
    \E component \in Components, identifier \in Idents, strict \in BOOLEAN :
        LET r == IF strict THEN FindStrictKeyword(data, component, identifier)
                 ELSE FindPositional(data, component, identifier)
        IN /\ last.op = "idle"
           /\ UNCHANGED <<data, entry>>
           /\ last' = [Call("find", component, identifier, None, <<>>, FALSE,
                            <<>>, r, data)
                         EXCEPT !.ret = r.key, !.strict = strict]

\* list(registry)
Iterate ==
    LET r == IterResult(data)
    IN /\ last.op = "idle"
       /\ UNCHANGED <<data, entry>>
       /\ last' = [Call("iter", None, None, None, <<>>, FALSE, <<>>, r, data)
                     EXCEPT !.ret = r.ret]

\* Versions.loads(registry.dumps()); the registry itself is not changed
RoundTrip ==
    /\ last.op = "idle"
    /\ \E r \in RoundTripResult(data) :
          /\ UNCHANGED <<data, entry>>
          /\ last' = Call("roundtrip", None, None, None, <<>>, FALSE, <<>>, r,
                          data)

\* the caller starts from the registry that Versions.from_json builds from a
\* persisted document, in place of the empty one; from_json reads no
\* existing registry
FromJson ==
    /\ last.op = "idle"
    /\ data = EmptyData
    /\ \E doc \in Docs :
          \E r \in FromJsonResult(doc) :
             /\ data' = r.data
             /\ UNCHANGED entry
             /\ last' = [Call("from_json", None, None, None, <<>>, FALSE, <<>>,
                              r, data)
                           EXCEPT !.doc = doc]

\* the caller takes the result (or the exception) of the call and goes on
Return ==
    /\ last.op # "idle"
    /\ last' = Idle
    /\ UNCHANGED <<data, entry>>

Next ==
    \/ Add \/ Update \/ Remove \/ DifferenceUpdate
    \/ FindCall \/ Iterate \/ RoundTrip \/ FromJson
    \/ Return

Spec == Init /\ [][Next]_vars

\* ------------------------------------------- VersionInfo used on its own
\* entry = VersionInfo(version, title, aliases); when the constructor raises
\* the caller keeps the object it had
EntryInit ==
    \E version \in Idents, title \in Titles, aliases \in AliasLists :
        LET r == VersionInfoInit(version, title, aliases)
        IN /\ last.op = "idle"
           /\ entry' = IF r.res.err = "ok"
                        THEN [version |-> version, info |-> r.info] ELSE entry
           /\ UNCHANGED data
           /\ last' = [Call("entry_init", None, version, title, aliases, FALSE,
                            <<>>, r, data)
                         EXCEPT !.old = entry]

\* entry.update(title, aliases) on the object the caller holds
EntryUpdate ==
    \E title \in Titles, aliases \in AliasLists :
        LET r == VersionInfoUpdate(entry.info, entry.version, title, aliases)
        IN /\ last.op = "idle"
           /\ entry.info.present
           /\ entry' = [entry EXCEPT !.info = r.info]
           /\ UNCHANGED data
           /\ last' = [Call("entry_update", None, entry.version, title, aliases,
                            FALSE, <<>>, r, data)
                         EXCEPT !.added = r.added, !.old = entry]

NextEntry == EntryInit \/ EntryUpdate \/ Return

SpecEntry == Init /\ [][NextEntry]_vars

\* ------------------------------------------------- vocabulary of the claims
\* x is a primary identifier of component c
IsPrimary(d, c, x) == d[c].present /\ d[c].v[x].present

\* the entries of component c that have a among their aliases
Owners(d, c, a) == {x \in Idents : IsPrimary(d, c, x) /\ a \in d[c].v[x].aliases}

\* x resolves in component c, as an identifier or as an alias
Resolves(d, c, x) == IsPrimary(d, c, x) \/ Owners(d, c, x) # {}

\* the call failed with one of the alias-collision errors
AliasConflict(l) ==
    l.err = "ValueError"
    /\ l.msg \in {"alias_is_version", "alias_exists", "version_exists"}

\* the call failed with a not-found error
NotFound(l) == l.err \in {"KeyError", "ValueError"} /\ l.msg = "not_found"

\* every alias of the list is valid, differs from v, and is neither an
\* identifier nor another entry's alias in component c
AliasesFree(d, c, v, aliases) ==
    \A a \in Range(aliases) :
        /\ ~CheckVersionRaises(a)
        /\ a # v
        /\ ~IsPrimary(d, c, a)
        /\ Owners(d, c, a) \subseteq {v}

\* ------------------------------------------------------------------ claims
\* C1: in every reachable state and for every component, no string is both a
\* primary identifier and an alias of an entry of the component, and no alias
\* belongs to two different entries of the component.
C1_UniqueIdentifiersAndAliases ==
    \A c \in Components : \A x \in Idents :
        /\ ~(IsPrimary(data, c, x) /\ Owners(data, c, x) # {})
        /\ Cardinality(Owners(data, c, x)) <= 1

\* the call add(component, Y, aliases=[a], update_aliases=u) was made when a
\* was an alias of an entry X other than Y
AddOfTakenAlias(l, u) ==
    /\ l.op = "add"
    /\ l.update_aliases = u
    /\ Len(l.aliases) = 1
    /\ l.version \in Names
    /\ l.aliases[1] # l.version
    /\ Owners(l.pre, l.component, l.aliases[1]) \ {l.version} # {}

\* C2: add(component, Y, aliases=[a]) without update_aliases, when a belongs
\* to another entry X, fails with an alias-conflict error; X still owns a,
\* the title and alias set of X are unchanged, and Y is neither created nor
\* changed.
C2_AddTakenAliasFails ==
    AddOfTakenAlias(last, FALSE) =>
        /\ AliasConflict(last)
        /\ \A X \in Owners(last.pre, last.component, last.aliases[1]) :
              /\ last.aliases[1] \in data[last.component].v[X].aliases
              /\ data[last.component].v[X] = last.pre[last.component].v[X]
        /\ data[last.component].v[last.version]
             = last.pre[last.component].v[last.version]

C2_Witness ==
    /\ AddOfTakenAlias(last, FALSE)
    /\ ~IsPrimary(last.pre, last.component, last.version)
    /\ last.err = "ValueError"

\* C3: add(component, Y, aliases=[a], update_aliases=True), when a belongs to
\* another entry X, succeeds; afterwards a is an alias of Y, a is not an alias
\* of X, and X is still an entry.
C3_AddTakenAliasReassigns ==
    AddOfTakenAlias(last, TRUE) =>
        /\ last.err = "ok"
        /\ last.aliases[1] \in data[last.component].v[last.version].aliases
        /\ \A X \in Owners(last.pre, last.component, last.aliases[1])
                      \ {last.version} :
              /\ last.aliases[1] \notin data[last.component].v[X].aliases
              /\ IsPrimary(data, last.component, X)

\* C4: an add or update call that fails its uniqueness check leaves the
\* registry as it was: same components, same entries, same titles and aliases.
C4_FailedUniquenessCheckChangesNothing ==
    (last.op \in {"add", "update"} /\ AliasConflict(last)) => data = last.pre

\* the identifiers of the list that do not resolve in the component
Unresolved(l) ==
    {x \in Range(l.identifiers) : ~Resolves(l.pre, l.component, x)}

\* C5: difference_update with at least one identifier that does not resolve
\* fails with a not-found error and removes nothing.
C5_BulkRemoveUnresolvedFails ==
    (last.op = "difference_update" /\ Unresolved(last) # {}) =>
        NotFound(last) /\ data = last.pre

\* C6: the error of a difference_update that fails on unresolved identifiers
\* names every unresolved identifier of the list.
C6_BulkRemoveNamesAllUnresolved ==
    (last.op = "difference_update" /\ last.err # "ok" /\ Unresolved(last) # {})
        => Unresolved(last) \subseteq last.names

\* C7: remove of a primary identifier succeeds and deletes the whole entry:
\* the identifier and the entry's aliases no longer resolve, and every other
\* entry is unchanged.
C7_RemovePrimaryDeletesEntry ==
    (last.op = "remove" /\ IsPrimary(last.pre, last.component, last.version)) =>
        /\ last.err = "ok"
        /\ ~Resolves(data, last.component, last.version)
        /\ \A a \in last.pre[last.component].v[last.version].aliases :
              ~Resolves(data, last.component, a)
        /\ \A c \in Components : \A x \in Idents \ {last.version} :
              data[c].v[x] = last.pre[c].v[x]

\* C8: remove of an alias a of entry X succeeds and strips only that alias:
\* X keeps its identifier and title, its alias set loses a, and every other
\* entry is unchanged.
C8_RemoveAliasStripsAlias ==
    (/\ last.op = "remove"
     /\ ~IsPrimary(last.pre, last.component, last.version)
     /\ Owners(last.pre, last.component, last.version) # {}) =>
        /\ last.err = "ok"
        /\ \A c \in Components : \A x \in Idents :
              data[c].v[x] =
                IF c = last.component
                   /\ x \in Owners(last.pre, last.component, last.version)
                THEN [last.pre[c].v[x] EXCEPT !.aliases = @ \ {last.version}]
                ELSE last.pre[c].v[x]

\* C9: add is idempotent: after an add that succeeded, the same add succeeds
\* again and leaves the registry as the first call left it.
C9_AddIdempotent ==
    (last.op = "add" /\ last.err = "ok") =>
        LET again == AddResult(data, last.component, last.version, last.title,
                               last.aliases, last.update_aliases)
        IN again.res.err = "ok" /\ again.data = data

C9_Witness ==
    /\ last.op = "add"
    /\ last.err = "ok"
    /\ last.aliases # <<>>
    /\ IsPrimary(last.pre, last.component, last.version)
    /\ Range(last.aliases) \subseteq
         last.pre[last.component].v[last.version].aliases
    /\ data = last.pre

\* C10: add of a version that is already a primary identifier creates no
\* entry and updates the existing one: its aliases become the union of the
\* old and the given aliases, its title the given title, or the old title
\* when none is given.
C10_AddExistingUpdates ==
    (/\ last.op = "add"
     /\ IsPrimary(last.pre, last.component, last.version)
     /\ AliasesFree(last.pre, last.component, last.version, last.aliases)) =>
        /\ last.err = "ok"
        /\ \A c \in Components : \A x \in Idents :
              data[c].v[x].present = last.pre[c].v[x].present
        /\ data[last.component].v[last.version].aliases =
              last.pre[last.component].v[last.version].aliases
                \cup Range(last.aliases)
        /\ data[last.component].v[last.version].title =
              IF last.title = None
              THEN last.pre[last.component].v[last.version].title
              ELSE last.title

\* C11: update of an identifier that is neither a primary identifier nor an
\* alias of the component fails with a not-found error, creates no entry and
\* leaves the registry unchanged.
C11_UpdateUnresolvedFails ==
    (last.op = "update" /\ ~Resolves(last.pre, last.component, last.version)) =>
        NotFound(last) /\ data = last.pre

\* the call update(component, a, aliases=B) was made when a was an alias (and
\* not an identifier) of the component and B was free in the component
UpdateThroughAlias(l) ==
    /\ l.op = "update"
    /\ ~IsPrimary(l.pre, l.component, l.version)
    /\ Owners(l.pre, l.component, l.version) # {}
    /\ \A X \in Owners(l.pre, l.component, l.version) :
          AliasesFree(l.pre, l.component, X, l.aliases)

\* C12: update(component, a, aliases=B) where a is an alias of entry X and B
\* is free succeeds and applies to X: the aliases of X become its old aliases
\* (a among them) united with B, and no entry a exists.
C12_UpdateThroughAliasAppliesToOwner ==
    UpdateThroughAlias(last) =>
        /\ last.err = "ok"
        /\ \A X \in Owners(last.pre, last.component, last.version) :
              /\ data[last.component].v[X].aliases =
                    last.pre[last.component].v[X].aliases \cup Range(last.aliases)
              /\ last.version \in data[last.component].v[X].aliases
        /\ ~IsPrimary(data, last.component, last.version)

\* the primary identifiers of other entries among the requested aliases of an
\* add, or of an update of a primary identifier
DemotedIdentifiers(l) ==
    {a \in Range(l.aliases) :
        /\ a # l.version
        /\ IsPrimary(l.pre, l.component, a)
        /\ l.op = "update" => IsPrimary(l.pre, l.component, l.version)}

\* C13: add or update whose requested aliases contain the primary identifier
\* of a different entry of the component fails with an alias-conflict error
\* for both values of update_aliases; the string stays a primary identifier
\* and is in no alias set.
C13_IdentifierNeverDemoted ==
    (last.op \in {"add", "update"} /\ DemotedIdentifiers(last) # {}) =>
        /\ AliasConflict(last)
        /\ \A a \in DemotedIdentifiers(last) :
              /\ IsPrimary(data, last.component, a)
              /\ Owners(data, last.component, a) = {}

\* C14: add(component, v) where v is an alias of another entry X fails with
\* an alias-conflict error without update_aliases; with update_aliases it
\* succeeds, v leaves the aliases of X and becomes a primary identifier.
C14_AddOfAliasAsVersion ==
    (/\ last.op = "add"
     /\ last.aliases = <<>>
     /\ ~IsPrimary(last.pre, last.component, last.version)
     /\ Owners(last.pre, last.component, last.version) # {}) =>
        IF ~last.update_aliases
        THEN AliasConflict(last) /\ data = last.pre
        ELSE /\ last.err = "ok"
             /\ Owners(data, last.component, last.version) = {}
             /\ IsPrimary(data, last.component, last.version)
             /\ \A X \in Owners(last.pre, last.component, last.version) :
                   IsPrimary(data, last.component, X)

\* C15: find(component, identifier) returns (identifier,) exactly when
\* identifier is a primary identifier of the component, (owner, identifier)
\* exactly when it is an alias of entry owner, and otherwise None, or a
\* not-found error when strict.
C15_FindResolves ==
    last.op = "find" =>
        IF IsPrimary(last.pre, last.component, last.version)
        THEN last.err = "ok" /\ last.ret = <<last.version>>
        ELSE IF Owners(last.pre, last.component, last.version) # {}
        THEN /\ last.err = "ok"
             /\ \E X \in Owners(last.pre, last.component, last.version) :
                   last.ret = <<X, last.version>>
        ELSE IF last.strict THEN NotFound(last)
        ELSE last.err = "ok" /\ last.ret = <<>>

\* the entries of the registry, as <<component, version>>
Entries(d) == {x \in Components \X Idents : IsPrimary(d, x[1], x[2])}

\* the names of the model that match the pattern v?\d of the sort key
ReleaseNames == {"1.0", "2.0"}

\* x is yielded before y: the descending order of the key
\* (0 for a release and 1 otherwise, version)
SortsBefore(x, y) ==
    \/ x \notin ReleaseNames /\ y \in ReleaseNames
    \/ x = "2.0" /\ y = "1.0"
    \/ x = "latest" /\ y = ".."

\* C16: iterating the registry yields every entry of every component exactly
\* once, development versions first and release versions after them in
\* descending order.
C16_IterationYieldsAllInOrder ==
    last.op = "iter" =>
        /\ last.err = "ok"
        /\ Len(last.ret) = Cardinality(Entries(last.pre))
        /\ {<<last.ret[i].component, last.ret[i].version>> :
               i \in 1..Len(last.ret)} = Entries(last.pre)
        /\ \A i, j \in 1..Len(last.ret) :
              i < j => ~SortsBefore(last.ret[j].version, last.ret[i].version)

\* C17: for every registry reached by add, update and remove calls,
\* loads(dumps(registry)) succeeds and yields the same components and the
\* same entries (identifier, title, alias set).
C17_DumpsLoadsRoundTrip ==
    last.op = "roundtrip" =>
        /\ last.err = "ok"
        /\ \A r \in RoundTripResult(last.pre) : r.data = last.pre

\* two entries of the document's component share an alias, or an alias of
\* one is the identifier of another
DocCollides(doc) ==
    \E it \in Range(doc.items) : \E i, j \in 1..Len(it.versions) :
        /\ it.versions[i].version # it.versions[j].version
        /\ \/ Range(it.versions[i].aliases) \cap Range(it.versions[j].aliases) # {}
           \/ it.versions[j].version \in Range(it.versions[i].aliases)

\* every entry of the document is valid on its own and no identifier occurs
\* twice
DocWellFormed(doc) ==
    \A it \in Range(doc.items) :
        /\ \A i \in 1..Len(it.versions) :
              VersionInfoInit(it.versions[i].version, it.versions[i].title,
                              it.versions[i].aliases).res.err = "ok"
        /\ \A i, j \in 1..Len(it.versions) :
              it.versions[i].version = it.versions[j].version => i = j

\* C18: from_json rejects a document in which two entries of a component
\* share an alias or an alias equals another entry's identifier, and loads a
\* document without such a collision, also when its entries have aliases.
C18_FromJsonEnforcesUniqueness ==
    (last.op = "from_json" /\ DocWellFormed(last.doc)) =>
        IF DocCollides(last.doc) THEN last.err = "ValueError"
        ELSE last.err = "ok"

\* C19: in every reachable state no entry has its own identifier among its
\* aliases, and an add that passes the uniqueness check with the identifier
\* among valid requested aliases fails with the duplicate-alias error.
C19_IdentifierNotOwnAlias ==
    /\ \A c \in Components : \A x \in Idents : x \notin data[c].v[x].aliases
    /\ (/\ last.op = "add"
        /\ last.version \in Range(last.aliases)
        /\ FirstInvalid(last.aliases) = <<>>
        /\ ~AliasConflict(last)) =>
           last.err = "ValueError" /\ last.msg = "duplicated"

C19_Witness ==
    /\ last.op = "add"
    /\ last.aliases = <<last.version>>
    /\ IsPrimary(last.pre, last.component, last.version)
    /\ last.msg = "duplicated"

\* C20: remove of an alias returns the still-existing owning entry, and
\* remove of a primary identifier the removed entry, never the alias string.
C20_RemoveReturnsEntry ==
    (last.op = "remove" /\ Resolves(last.pre, last.component, last.version)) =>
        /\ last.err = "ok"
        /\ IF IsPrimary(last.pre, last.component, last.version)
           THEN last.ret = <<"VersionInfo", last.version>>
           ELSE \E X \in Owners(last.pre, last.component, last.version) :
                   /\ last.ret = <<"VersionInfo", X>>
                   /\ IsPrimary(data, last.component, X)

\* C21: a VersionInfo.update(title, aliases) that succeeds makes the alias set
\* the union of the old alias set and the given aliases, returns exactly the
\* given aliases that were not in the old set, and keeps the title when none
\* is given.
C21_EntryUpdateUnionsAndReturnsAdded ==
    (last.op = "entry_update" /\ last.err = "ok") =>
        /\ entry.info.aliases = last.old.info.aliases \cup Range(last.aliases)
        /\ last.old.info.aliases \subseteq entry.info.aliases
        /\ last.added = Range(last.aliases) \ last.old.info.aliases
        /\ last.title = None => entry.info.title = last.old.info.title
        /\ last.title # None => entry.info.title = last.title
        /\ entry.version = last.old.version

C21_Witness ==
    /\ last.op = "entry_update"
    /\ last.err = "ok"
    /\ last.title = None
    /\ last.old.info.title = "T"
    /\ last.aliases # <<>>
    /\ Range(last.aliases) \subseteq last.old.info.aliases
    /\ last.added = {}

\* C22: an add or update that fails in the validation of the entry (an
\* invalid alias, or the entry's own identifier among the aliases) is not
\* applied at all: the title and the alias set of every entry are unchanged.
C22_FailedEntryValidationChangesNothing ==
    (/\ last.op \in {"add", "update"}
     /\ last.err = "ValueError"
     /\ last.msg \in {"invalid_alias", "duplicated"}) =>
        \A c \in Components : \A x \in Idents : data[c].v[x] = last.pre[c].v[x]

\* C23: a difference_update whose identifiers all resolve, also when the
\* list names an entry together with one of its aliases or one identifier
\* twice, never stops with an error after a removal has been applied.
C23_BulkRemoveNeverPartial ==
    (/\ last.op = "difference_update"
     /\ \A x \in Range(last.identifiers) :
           Resolves(last.pre, last.component, x)
     /\ last.err # "ok") =>
        data = last.pre

C23_Witness ==
    /\ last.op = "difference_update"
    /\ Len(last.identifiers) = 2
    /\ IsPrimary(last.pre, last.component, last.identifiers[1])
    /\ last.identifiers[2] \in
         last.pre[last.component].v[last.identifiers[1]].aliases
    /\ last.err # "ok"
    /\ data = last.pre

\* the registry d with every component but c emptied
Isolated(d, c) == [k \in Components |-> IF k = c THEN d[k] ELSE NoBucket]

\* the outcome of the call recorded in l, made on the registry d
Replay(l, d) ==
    IF l.op = "add"
    THEN AddResult(d, l.component, l.version, l.title, l.aliases,
                   l.update_aliases)
    ELSE IF l.op = "update"
    THEN UpdateResult(d, l.component, l.version, l.title, l.aliases,
                      l.update_aliases)
    ELSE IF l.op = "remove"
    THEN RemoveResult(d, l.component, l.version)
    ELSE DifferenceUpdateResult(d, l.component, l.identifiers)

\* C24: an add, update, remove or difference_update on component A leaves
\* every other component unchanged, and its outcome is the one the same call
\* has when the other components hold nothing: no identifier or alias of
\* another component causes a conflict or a lookup hit.
C24_ComponentsIndependent ==
    last.op \in {"add", "update", "remove", "difference_update"} =>
        /\ \A c \in Components \ {last.component} : data[c] = last.pre[c]
        /\ LET alone == Replay(last, Isolated(last.pre, last.component))
           IN /\ alone.res.err = last.err
              /\ alone.res.msg = last.msg
              /\ alone.data[last.component] = data[last.component]

C24_Witness ==
    /\ last.op = "add"
    /\ last.err = "ok"
    /\ last.aliases # <<>>
    /\ \E c \in Components \ {last.component} :
          \E a \in Range(last.aliases) : IsPrimary(last.pre, c, a)
    /\ \A c \in Components \ {last.component} : data[c] = last.pre[c]
====
